---- MODULE Spec2Model ----
(***************************************************************************)
(* ClassScheduler: the form / DAO / service layer (BaseForm, TeacherForm,  *)
(* BaseDAO, TeacherDAO, srv_teacher, srv_training_session) and the schema  *)
(* migration manager, as state machines over a small relational database.  *)
(***************************************************************************)
EXTENDS Integers, Sequences, FiniteSets, TLC

VARIABLES
    form,       \* the BaseForm object under test (its fields)
    op,         \* the operation that produced the current state, and what it was given
    db,         \* the application tables: teacher, trainingsession, sessionattendee
    ret,        \* outcome of the last operation: a returned value or a raised exception
    calls,      \* DAO methods invoked by the last operation, in order, with their kwargs
    fk,         \* the last operation ran a statement that violated a foreign key
    pc,         \* where run_all_migrations stands
    idx,        \* its position in MIGRATION_ORDER
    dbm,        \* the committed schema: tracking table, recorded names, tables
    tx,         \* the open transaction's view of the schema
    hist,       \* history of the migration runs
    procs,      \* the processes that run run_all_migrations at the same time
    cal,        \* the MonthCalendar object and the controls alive on its container
    org         \* the accounting schema's org table, now and when the DAO was made

svcVars == <<form, op, db, calls, fk>>
migVars == <<pc, idx, dbm, tx, hist, procs>>
vars == <<form, op, db, ret, calls, fk, pc, idx, dbm, tx, hist, procs, cal, org>>

(***************************************************************************)
(* Bounds of the model.                                                    *)
(***************************************************************************)
MaxTeachers == 2
MaxSessions == 2
MaxAttendees == 2
NumMigrations == 2
MaxRuns == 2
MonthSpan == 6
MaxItems == 2
MaxBuilds == 3
MaxOrgs == 2

(***************************************************************************)
(* Program constants.                                                      *)
(***************************************************************************)
MaxNameLen == 45
TablesPerMigration == 2

Meta_create_fn == "create"
Meta_update_fn == "update"
Meta_pk_field == "teacher_id"

(***************************************************************************)
(* Python values: None, int, str (a sequence of characters), dict, object. *)
(***************************************************************************)
None == [t |-> "none"]
IntV(n) == [t |-> "int", v |-> n]
BoolV(b) == [t |-> "bool", v |-> b]
StrV(s) == [t |-> "str", v |-> s]
Dict(kv) == [t |-> "dict", kv |-> kv]
Obj(attrs) == [t |-> "obj", attrs |-> attrs]

EmptyDict == [k \in {} |-> None]
Put(d, k, v) == [y \in DOMAIN d \cup {k} |-> IF y = k THEN v ELSE d[y]]
Merge(d, e) == [y \in DOMAIN d \cup DOMAIN e |-> IF y \in DOMAIN e THEN e[y] ELSE d[y]]

\* Python truthiness, as used by `x or y` and `if x`.
Truthy(v) ==
    CASE v.t = "none" -> FALSE
      [] v.t = "int"  -> v.v # 0
      [] v.t = "bool" -> v.v
      [] v.t = "str"  -> Len(v.v) # 0
      [] v.t = "dict" -> DOMAIN v.kv # {}
      [] OTHER        -> TRUE

IsSpace(c) == c = " "

RECURSIVE LStrip(_)
LStrip(s) == IF Len(s) > 0 /\ IsSpace(Head(s)) THEN LStrip(Tail(s)) ELSE s

RECURSIVE RStrip(_)
RStrip(s) ==
    IF Len(s) > 0 /\ IsSpace(s[Len(s)]) THEN RStrip(SubSeq(s, 1, Len(s) - 1)) ELSE s

\* str.strip()
strip(s) == RStrip(LStrip(s))

DigitChars == <<"0", "1", "2", "3", "4", "5", "6", "7", "8", "9">>
IsDigit(c) == \E d \in 1..10 : DigitChars[d] = c
DigitOf(c) == (CHOOSE d \in 1..10 : DigitChars[d] = c) - 1

RECURSIVE DecimalValue(_)
DecimalValue(s) ==
    IF Len(s) = 0 THEN 0
    ELSE 10 * DecimalValue(SubSeq(s, 1, Len(s) - 1)) + DigitOf(s[Len(s)])

RECURSIVE DecimalDigits(_)
DecimalDigits(n) ==
    IF n < 10 THEN <<DigitChars[n + 1]>>
    ELSE Append(DecimalDigits(n \div 10), DigitChars[(n % 10) + 1])

\* str(x) for the values a form field can hold
str(v) ==
    CASE v.t = "str" -> v.v
      [] v.t = "int" -> DecimalDigits(v.v)
      [] OTHER       -> <<"N", "o", "n", "e">>

\* int() of a stripped string: ValueError unless it is all digits
ParseInt(s) ==
    IF Len(s) > 0 /\ \A i \in 1..Len(s) : IsDigit(s[i])
    THEN [ok |-> TRUE, v |-> DecimalValue(s)]
    ELSE [ok |-> FALSE, v |-> 0]

\* int(x): ok is FALSE where Python raises TypeError / ValueError
int(v) ==
    CASE v.t = "int" -> [ok |-> TRUE, v |-> v.v]
      [] v.t = "str" -> ParseInt(strip(v.v))
      [] OTHER       -> [ok |-> FALSE, v |-> 0]

\* `c in s`
Contains(s, c) == \E i \in 1..Len(s) : s[i] = c

(***************************************************************************)
(* BaseForm                                                                *)
(***************************************************************************)
\* BaseForm.__init__: data is None or a Dict, instance is None or an Obj
BaseForm(data, instance, partial) ==
    [ data         |-> IF Truthy(data) THEN data.kv ELSE EmptyDict,
      instance     |-> instance,
      partial      |-> partial,
      cleaned_data |-> EmptyDict,
      _errors      |-> <<>>,
      _is_bound    |-> (data # None) \/ (instance # None) ]

\* The errors property: a copy of the list
errors(f) == f._errors

\* add_error(field, message); field "" stands for None (both map to "__all__")
add_error(errs, field, message) ==
    Append(errs, [field |-> IF field = "" THEN "__all__" ELSE field,
                  message |-> message])

get(f, field) == IF field \in DOMAIN f.data THEN f.data[field] ELSE None

\* require(field): the value, and whether it recorded "This field is required."
require(f, field) ==
    IF f.partial /\ field \notin DOMAIN f.data
    THEN [val |-> None, err |-> FALSE]
    ELSE LET val == get(f, field)
         IN  [val |-> val,
              err |-> (val = None) \/ (val.t = "str" /\ Len(strip(val.v)) = 0)]

_pk_value(f) ==
    LET pk == Meta_pk_field
    IN  IF f.instance # None /\ pk \in DOMAIN f.instance.attrs
        THEN f.instance.attrs[pk]
        ELSE get(f, pk)

(***************************************************************************)
(* TeacherForm.clean                                                       *)
(***************************************************************************)
\* Each step of clean() yields the errors it appends and the keys it cleans.
Step(errs, cleaned) == [errs |-> errs, cleaned |-> cleaned]

\* require(): "This field is required."
RequiredStep(f, field) ==
    IF require(f, field).err
    THEN Step(add_error(<<>>, field, "This field is required."), EmptyDict)
    ELSE Step(<<>>, EmptyDict)

\* PK passthrough for updates; blank is str(teacher_id).strip() == "", conv is int(teacher_id)
IdStep(teacher_id, blank, conv) ==
    IF teacher_id = None THEN Step(<<>>, EmptyDict)
    ELSE IF blank THEN Step(<<>>, [teacher_id |-> None])
    ELSE IF conv.ok THEN Step(<<>>, [teacher_id |-> IntV(conv.v)])
    ELSE Step(add_error(<<>>, "teacher_id", "Invalid teacher id"), EmptyDict)

\* first_name / last_name; s is str(value or "").strip()
NameStep(f, field, in, s, message) ==
    IF (in # None) \/ ~f.partial
    THEN IF Len(s) > MaxNameLen
         THEN Step(add_error(<<>>, field, message), EmptyDict)
         ELSE Step(<<>>, Put(EmptyDict, field, StrV(s)))
    ELSE Step(<<>>, EmptyDict)

\* value or ""
OrEmpty(in) == IF Truthy(in) THEN in ELSE StrV(<<>>)

\* email; em is None if the input is None, else str(input).strip()
EmailStep(em) ==
    IF em = None \/ Len(em.v) = 0 THEN Step(<<>>, [email |-> None])
    ELSE IF ~Contains(em.v, "@")
         THEN Step(add_error(<<>>, "email", "Invalid email address"), EmptyDict)
         ELSE Step(<<>>, [email |-> em])

StripOrNone(in) == IF in = None THEN None ELSE StrV(strip(str(in)))

\* The steps in the order clean() runs them; cleaned_data.update(cleaned) last
Assign(f, r1, r2, id, fn, ln, em) ==
    [f EXCEPT
       !._errors = f._errors \o r1.errs \o r2.errs \o id.errs \o fn.errs \o ln.errs \o em.errs,
       !.cleaned_data =
           Merge(f.cleaned_data,
                 Merge(Merge(Merge(id.cleaned, fn.cleaned), ln.cleaned), em.cleaned))]

\* TeacherForm.clean
clean(f) ==
    Assign(f,
           RequiredStep(f, "first_name"),
           RequiredStep(f, "last_name"),
           IdStep(get(f, "teacher_id"), Len(strip(str(get(f, "teacher_id")))) = 0,
                  int(get(f, "teacher_id"))),
           NameStep(f, "first_name", require(f, "first_name").val,
                    strip(str(OrEmpty(require(f, "first_name").val))),
                    "First name cannot exceed 45 characters"),
           NameStep(f, "last_name", require(f, "last_name").val,
                    strip(str(OrEmpty(require(f, "last_name").val))),
                    "Last name cannot exceed 45 characters"),
           EmailStep(StripOrNone(get(f, "email"))))

(***************************************************************************)
(* The database.  db.teacher, db.session and db.attendee map a primary key *)
(* to its row or to NoRow; db.session[s].teacher and db.attendee[a].session*)
(* are foreign keys the database enforces.  db.seq is the teacher SERIAL.  *)
(***************************************************************************)
NoRow == [t |-> "norow"]
TeacherIds == 1..MaxTeachers
SessionIds == 1..MaxSessions
AttendeeIds == 1..MaxAttendees

\* What the environment does to one statement: run it, or fail it with an
\* error that is neither DoesNotExist nor IntegrityError (OperationalError).
DbOutcomes == {"ok", "error"}

Returned(v) == [kind |-> "return", value |-> v]
Raised(e) == [kind |-> "raise", exc |-> e]

\* The model instance peewee hands back for a teacher row
TeacherModel(id, row) ==
    [t |-> "model", teacher_id |-> id, first_name |-> row.first_name,
     last_name |-> row.last_name, email |-> row.email]

\* Rows of a table selected by `pk == value`
Matching(table, value) ==
    IF value.t = "int" THEN {i \in DOMAIN table : i = value.v /\ table[i] # NoRow} ELSE {}

\* Teacher.create(first_name=..., last_name=..., email=...)
TeacherCreateQ(d, kw, e) ==
    IF e = "error" THEN [out |-> Raised("OperationalError"), db |-> d]
    ELSE LET row == [first_name |-> kw.first_name, last_name |-> kw.last_name,
                     email |-> kw.email]
         IN  [out |-> Returned(TeacherModel(d.seq, row)),
              db  |-> [d EXCEPT !.teacher[d.seq] = row, !.seq = d.seq + 1]]

\* Teacher.update(**updates).where(Teacher.teacher_id == teacher_id).execute()
TeacherUpdateQ(d, teacher_id, updates, e) ==
    IF e = "error" THEN [out |-> Raised("OperationalError"), db |-> d]
    ELSE LET hit == Matching(d.teacher, teacher_id)
         IN  [out |-> Returned(IntV(Cardinality(hit))),
              db  |-> [d EXCEPT !.teacher =
                         [i \in DOMAIN d.teacher |->
                            IF i \in hit THEN Merge(d.teacher[i], updates)
                            ELSE d.teacher[i]]]]

\* Teacher.get(Teacher.teacher_id == teacher_id)
TeacherGetQ(d, teacher_id, e) ==
    IF e = "error" THEN [out |-> Raised("OperationalError"), db |-> d]
    ELSE LET hit == Matching(d.teacher, teacher_id)
         IN  IF hit = {} THEN [out |-> Raised("DoesNotExist"), db |-> d]
             ELSE LET i == CHOOSE i \in hit : TRUE
                  IN  [out |-> Returned(TeacherModel(i, d.teacher[i])), db |-> d]

\* Teacher.delete().where(Teacher.teacher_id == teacher_id).execute()
TeacherDeleteQ(d, teacher_id, e) ==
    IF e = "error" THEN [out |-> Raised("OperationalError"), db |-> d]
    ELSE LET hit == Matching(d.teacher, teacher_id)
         IN  IF \E s \in SessionIds : d.session[s] # NoRow /\ d.session[s].teacher \in hit
             THEN [out |-> Raised("IntegrityError"), db |-> d]
             ELSE [out |-> Returned(IntV(Cardinality(hit))),
                   db  |-> [d EXCEPT !.teacher =
                              [i \in DOMAIN d.teacher |->
                                 IF i \in hit THEN NoRow ELSE d.teacher[i]]]]

\* SessionAttendee.delete().where(SessionAttendee.session == session_id).execute()
AttendeeDeleteQ(d, session_id, e) ==
    IF e = "error" THEN [out |-> Raised("OperationalError"), db |-> d]
    ELSE LET hit == {a \in AttendeeIds : d.attendee[a] # NoRow /\ session_id.t = "int"
                                         /\ d.attendee[a].session = session_id.v}
         IN  [out |-> Returned(IntV(Cardinality(hit))),
              db  |-> [d EXCEPT !.attendee =
                         [a \in AttendeeIds |-> IF a \in hit THEN NoRow ELSE d.attendee[a]]]]

\* TrainingSession.delete().where(TrainingSession.session_id == session_id).execute()
SessionDeleteQ(d, session_id, e) ==
    IF e = "error" THEN [out |-> Raised("OperationalError"), db |-> d]
    ELSE LET hit == Matching(d.session, session_id)
         IN  IF \E a \in AttendeeIds : d.attendee[a] # NoRow /\ d.attendee[a].session \in hit
             THEN [out |-> Raised("IntegrityError"), db |-> d]
             ELSE [out |-> Returned(IntV(Cardinality(hit))),
                   db  |-> [d EXCEPT !.session =
                              [s \in SessionIds |-> IF s \in hit THEN NoRow ELSE d.session[s]]]]

(***************************************************************************)
(* BaseDAO                                                                 *)
(***************************************************************************)
\* The exception classes the handlers of safe_execute tell apart
ExcBase(e) ==
    CASE e = "DoesNotExist"     -> "Exception"
      [] e = "IntegrityError"   -> "DatabaseError"
      [] e = "OperationalError" -> "DatabaseError"
      [] e = "DataError"        -> "DatabaseError"
      [] e = "DatabaseError"    -> "PeeweeException"
      [] e = "PeeweeException"  -> "Exception"
      [] OTHER                  -> "Exception"

RECURSIVE IsInstance(_, _)
IsInstance(e, cls) ==
    (e = cls) \/ (e # "Exception" /\ IsInstance(ExcBase(e), cls))

\* A safe_execute that lacks the `if reraise_integrity: raise` of line 95
safe_execute_NoReraise(q, default_return, reraise_integrity) ==
    IF q.out.kind = "return" THEN q
    ELSE [out |-> Returned(default_return), db |-> q.db]

\* safe_execute(operation_name, query_func, default_return, reraise_integrity);
\* q is what running query_func did: its outcome and the database after it.
safe_execute(q, default_return, reraise_integrity) ==
    IF q.out.kind = "return" THEN q
    ELSE IF IsInstance(q.out.exc, "DoesNotExist")
         THEN [out |-> Returned(default_return), db |-> q.db]
         ELSE IF IsInstance(q.out.exc, "IntegrityError")
              THEN IF reraise_integrity THEN q
                   ELSE [out |-> Returned(default_return), db |-> q.db]
              ELSE [out |-> Returned(default_return), db |-> q.db]

\* int(self.safe_execute(...)) of update_fields / delete_where
IntResult(r) ==
    IF r.out.kind = "return" THEN [r EXCEPT !.out = Returned(IntV(int(r.out.value).v))] ELSE r

\* BaseDAO.create
create(q) == safe_execute(q, None, TRUE)

\* BaseDAO.update_fields
update_fields(q) == IntResult(safe_execute(q, IntV(0), TRUE))

\* BaseDAO.delete_where
delete_where(q) == IntResult(safe_execute(q, IntV(0), TRUE))

(***************************************************************************)
(* TeacherDAO                                                              *)
(***************************************************************************)
NameFields == {"first_name", "last_name", "email"}

\* Python's binding of **kwargs to a signature: TypeError unless every
\* required parameter is given and nothing else than the parameters is.
Binds(kw, required, optional) ==
    required \subseteq DOMAIN kw /\ DOMAIN kw \subseteq (required \cup optional)

\* TeacherDAO.create(first_name, last_name, email)
TeacherDAO_create(d, kw, env) ==
    IF ~Binds(kw, NameFields, {}) THEN [out |-> Raised("TypeError"), db |-> d]
    ELSE safe_execute(TeacherCreateQ(d, kw, env.s1), None, TRUE)

\* The fetch that ends TeacherDAO.update, after its update_fields call u
FetchAfterUpdate(u, teacher_id, e) ==
    IF u.out.kind = "raise" THEN u
    ELSE safe_execute(TeacherGetQ(u.db, teacher_id, e), None, TRUE)

\* The fields of kw that TeacherDAO.update puts in `updates`
Updates(kw) == [k \in {x \in NameFields : x \in DOMAIN kw /\ kw[x] # None} |-> kw[k]]

\* TeacherDAO.update(teacher_id, first_name=None, last_name=None, email=None)
TeacherDAO_update(d, kw, env) ==
    IF ~Binds(kw, {"teacher_id"}, NameFields) THEN [out |-> Raised("TypeError"), db |-> d]
    ELSE FetchAfterUpdate(
            IF DOMAIN Updates(kw) # {}
            THEN update_fields(TeacherUpdateQ(d, kw.teacher_id, Updates(kw), env.s1))
            ELSE [out |-> Returned(IntV(0)), db |-> d],
            kw.teacher_id, env.s2)

\* getattr(dao, method_name)(**cleaned_data)
CallDAO(method_name, d, kw, env) ==
    IF method_name = "create" THEN TeacherDAO_create(d, kw, env)
    ELSE TeacherDAO_update(d, kw, env)

(***************************************************************************)
(* BaseForm.is_valid and BaseForm.save                                     *)
(***************************************************************************)
\* self._errors.clear(); self.cleaned_data.clear()
Cleared(f) == [f EXCEPT !._errors = <<>>, !.cleaned_data = EmptyDict]

\* is_valid() on an unbound form
Unbound(f) ==
    [form |-> [f EXCEPT !._errors =
                  add_error(f._errors, "", "Form is not bound (no data/instance).")],
     result |-> FALSE, cleanRan |-> FALSE]

\* self.clean(); return not self._errors
Validated(g) == [form |-> g, result |-> Len(g._errors) = 0, cleanRan |-> TRUE]

\* An is_valid() that lacks the two clear() calls of lines 57-58
is_valid_NoClear(f) == IF ~f._is_bound THEN Unbound(f) ELSE Validated(clean(f))

\* is_valid(): the form afterwards, the value returned, whether clean() ran
is_valid(f) == IF ~f._is_bound THEN Unbound(Cleared(f)) ELSE Validated(clean(Cleared(f)))

MethodName(f) == IF Truthy(_pk_value(f)) THEN Meta_update_fn ELSE Meta_create_fn

\* result = method(**self.cleaned_data); return {"ok": True, "result": result}
Saved(method_name, kw, r) ==
    [out   |-> IF r.out.kind = "raise" THEN r.out
               ELSE Returned([ok |-> TRUE, result |-> r.out.value]),
     db    |-> r.db,
     calls |-> <<[method |-> method_name, kwargs |-> kw]>>]

\* save(): the outcome, the database afterwards, the DAO calls made
save(f, d, env) ==
    IF Len(f._errors) > 0
    THEN [out |-> Returned([ok |-> FALSE, errors |-> errors(f)]), db |-> d, calls |-> <<>>]
    ELSE Saved(MethodName(f), f.cleaned_data, CallDAO(MethodName(f), d, f.cleaned_data, env))

(***************************************************************************)
(* Services: srv_teacher, srv_training_session                             *)
(***************************************************************************)
\* if not form.is_valid(): return {"ok": False, ...}; return form.save()
AfterIsValid(v, d, env) ==
    IF ~v.result
    THEN [out |-> Returned([ok |-> FALSE, errors |-> errors(v.form)]),
          db |-> d, calls |-> <<>>]
    ELSE save(v.form, d, env)

save_teacher(data, d, env) == AfterIsValid(is_valid(BaseForm(data, None, FALSE)), d, env)

\* {"ok": bool(n and n > 0), "deleted": n or 0}
DeleteReply(r) ==
    IF r.out.kind = "raise" THEN r
    ELSE [out |-> Returned([ok |-> (Truthy(r.out.value) /\ r.out.value.v > 0),
                            deleted |-> IF Truthy(r.out.value) THEN r.out.value.v ELSE 0]),
          db |-> r.db]

delete_teacher(teacher_id, d, env) ==
    DeleteReply(delete_where(TeacherDeleteQ(d, teacher_id, env.s1)))

\* The session delete, after the attendee delete a (whose count is dropped)
ThenDeleteSession(a, session_id, e) ==
    IF a.out.kind = "raise" THEN a
    ELSE DeleteReply(delete_where(SessionDeleteQ(a.db, session_id, e)))

delete_training_session(session_id, d, env) ==
    ThenDeleteSession(delete_where(AttendeeDeleteQ(d, session_id, env.s1)), session_id, env.s2)

(***************************************************************************)
(* Inputs and initial databases                                            *)
(***************************************************************************)
Envs == [s1 : DbOutcomes, s2 : DbOutcomes]

LongName == [i \in 1..(MaxNameLen + 1) |-> "a"]

IdInputs ==
    {None, StrV(<<>>), StrV(<<" ">>), StrV(<<"1">>), StrV(<<"x">>)}
        \cup {IntV(n) : n \in 0..(MaxTeachers + 1)}
FirstNameInputs == {None, StrV(<<>>), StrV(<<" ", "A">>), StrV(<<"B">>), StrV(LongName)}
LastNameInputs == {None, StrV(<<" ">>), StrV(<<"L">>), StrV(LongName)}
EmailInputs == {None, StrV(<<>>), StrV(<<"a">>), StrV(<<"a", "@", "b", " ">>)}

\* A dict holding the given keys; a key mapped to Absent is left out
Absent == [t |-> "absent"]
MkDict(id, fn, ln, em) ==
    LET all == [teacher_id |-> id, first_name |-> fn, last_name |-> ln, email |-> em]
    IN  [k \in {x \in DOMAIN all : all[x] # Absent} |-> all[k]]

DataInputs ==
    {None} \cup
    { Dict(MkDict(id, fn, ln, em)) :
        id \in IdInputs \cup {Absent}, fn \in FirstNameInputs \cup {Absent},
        ln \in LastNameInputs, em \in EmailInputs }

InstanceInputs ==
    {None, Obj(EmptyDict), Obj([teacher_id |-> None]), Obj([teacher_id |-> IntV(0)]),
     Obj([teacher_id |-> IntV(1)])}

SeedRow == [first_name |-> StrV(<<"A">>), last_name |-> StrV(<<"L">>), email |-> None]

\* Databases the program can be in: every foreign key points at a row, and the
\* teacher SERIAL is past every teacher row.
Databases ==
    { [teacher |-> [i \in 1..(MaxTeachers + 1) |-> IF i \in T THEN SeedRow ELSE NoRow],
       seq |-> q, session |-> se, attendee |-> at] :
        T \in SUBSET TeacherIds, q \in 1..(MaxTeachers + 1),
        se \in [SessionIds -> {NoRow} \cup {[teacher |-> i] : i \in TeacherIds}],
        at \in [AttendeeIds -> {NoRow} \cup {[session |-> i] : i \in SessionIds}] }

Consistent(d) ==
    /\ \A i \in TeacherIds : d.teacher[i] # NoRow => i < d.seq
    /\ \A s \in SessionIds : d.session[s] # NoRow => d.teacher[d.session[s].teacher] # NoRow
    /\ \A a \in AttendeeIds : d.attendee[a] # NoRow => d.session[d.attendee[a].session] # NoRow

NoSessions(d) == \A s \in SessionIds : d.session[s] = NoRow
NoAttendees(d) == \A a \in AttendeeIds : d.attendee[a] = NoRow

\* One teacher, no training session
SeedDb ==
    [teacher  |-> [i \in 1..(MaxTeachers + 1) |-> IF i = 1 THEN SeedRow ELSE NoRow],
     seq      |-> 2,
     session  |-> [s \in SessionIds |-> NoRow],
     attendee |-> [a \in AttendeeIds |-> NoRow]]

NoForm == BaseForm(None, None, FALSE)

Migrations == 1..NumMigrations

\* A fresh database: no tracking table, nothing recorded, no table
FreshSchema == [tracking |-> FALSE, recorded |-> {}, tables |-> {}]
NoTx == [recorded |-> {}, tables |-> {}, aborted |-> FALSE]
NoHist ==
    [runs |-> 0, attempted |-> <<>>, applied |-> [m \in Migrations |-> 0],
     startAll |-> FALSE, ensured |-> FALSE, failed |-> 0, before |-> FreshSchema,
     close_db |-> FALSE, open |-> FALSE]

Procs == {"p1", "p2"}

\* a process that has not called run_all_migrations yet
NoProc ==
    [pc |-> "idle", idx |-> 1, tx |-> NoTx, ret |-> Returned(None), fault |-> FALSE,
     inserted |-> {}]

\* no MonthCalendar constructed
NoCalendar == [current_date |-> <<0, 0, 0>>]

\* no CustomerDAO made
NoAccounting == [rows |-> {}, before |-> {}]

MigIdle ==
    /\ cal = NoCalendar
    /\ org = NoAccounting
    /\ procs = [p \in Procs |-> NoProc]
    /\ pc = "idle"
    /\ idx = 1
    /\ dbm = FreshSchema
    /\ tx = NoTx
    /\ hist = NoHist
Idle == [name |-> "init", validRuns |-> 0, cleanRan |-> FALSE, arg |-> None, changed |-> FALSE]

(***************************************************************************)
(* SpecForm: one TeacherForm, validated and saved any number of times      *)
(***************************************************************************)
InitForm ==
    /\ form \in {BaseForm(data, instance, partial) :
                    data \in DataInputs, instance \in InstanceInputs, partial \in BOOLEAN}
    /\ op = Idle
    /\ db = SeedDb
    /\ ret = Returned(None)
    /\ calls = <<>>
    /\ fk = FALSE
    /\ MigIdle

IsValid ==
    \E v \in {is_valid(form)} :
        /\ form' = v.form
        /\ op' = [name |-> "is_valid", cleanRan |-> v.cleanRan, arg |-> None, changed |-> FALSE,
                  validRuns |-> IF op.validRuns < 2 THEN op.validRuns + 1 ELSE 2]
        /\ ret' = Returned(BoolV(v.result))
        /\ calls' = <<>>
        /\ UNCHANGED <<db, fk>>
        /\ UNCHANGED <<migVars, cal, org>>

Save ==
    \E env \in Envs :
        \E r \in {save(form, db, env)} :
            /\ r.db.seq <= MaxTeachers + 1
            /\ op' = [op EXCEPT !.name = "save", !.cleanRan = FALSE, !.changed = (r.db # db)]
            /\ db' = r.db
            /\ ret' = r.out
            /\ calls' = r.calls
            /\ UNCHANGED <<form, fk>>
            /\ UNCHANGED <<migVars, cal, org>>

NextForm == IsValid \/ Save

SpecForm == InitForm /\ [][NextForm]_vars

(***************************************************************************)
(* SpecTeacher: save_teacher and delete_teacher on one database            *)
(***************************************************************************)
\* What the teacher dialog and other callers can pass to save_teacher
ServiceData ==
    { Dict(MkDict(id, fn, ln, em)) :
        id \in {Absent, StrV(<<>>), IntV(0), IntV(1), IntV(MaxTeachers)},
        fn \in {StrV(<<" ", "A">>), StrV(<<"B">>)},
        ln \in {StrV(<<"L">>), StrV(LongName)},
        em \in {None, StrV(<<"a", "@", "b", " ">>)} }

InitTeacher ==
    /\ form = NoForm
    /\ op = Idle
    /\ db \in {d \in Databases : Consistent(d) /\ NoAttendees(d)
                                 /\ \A s \in SessionIds : s > 1 => d.session[s] = NoRow}
    /\ ret = Returned(None)
    /\ calls = <<>>
    /\ fk = FALSE
    /\ MigIdle

SaveTeacher ==
    \E data \in ServiceData, env \in Envs :
        \E r \in {save_teacher(data, db, env)} :
            /\ r.db.seq <= MaxTeachers + 1
            /\ op' = [Idle EXCEPT !.name = "save_teacher", !.changed = (r.db # db)]
            /\ db' = r.db
            /\ ret' = r.out
            /\ calls' = r.calls
            /\ UNCHANGED <<form, fk>>
            /\ UNCHANGED <<migVars, cal, org>>

DeleteTeacher ==
    \E teacher_id \in 0..MaxTeachers, env \in Envs :
        \E r \in {delete_teacher(IntV(teacher_id), db, env)} :
            /\ op' = [Idle EXCEPT !.name = "delete_teacher", !.arg = IntV(teacher_id),
                                  !.changed = (r.db # db)]
            /\ db' = r.db
            /\ ret' = r.out
            /\ calls' = <<>>
            /\ fk' = (r.out.kind = "raise" /\ r.out.exc = "IntegrityError")
            /\ UNCHANGED form
            /\ UNCHANGED <<migVars, cal, org>>

NextTeacher == SaveTeacher \/ DeleteTeacher

SpecTeacher == InitTeacher /\ [][NextTeacher]_vars

(***************************************************************************)
(* SpecSession: delete_training_session on one database                    *)
(***************************************************************************)
InitSession ==
    /\ form = NoForm
    /\ op = Idle
    /\ db \in {d \in Databases : Consistent(d) /\ d.seq = MaxTeachers + 1
                                 /\ \A i \in TeacherIds : d.teacher[i] # NoRow}
    /\ ret = Returned(None)
    /\ calls = <<>>
    /\ fk = FALSE
    /\ MigIdle

DeleteTrainingSession ==
    \E session_id \in 0..MaxSessions, env \in Envs :
        \E r \in {delete_training_session(IntV(session_id), db, env)} :
            /\ op' = [Idle EXCEPT !.name = "delete_training_session",
                                  !.arg = IntV(session_id), !.changed = (r.db # db)]
            /\ db' = r.db
            /\ ret' = r.out
            /\ calls' = <<>>
            /\ fk' = (r.out.kind = "raise" /\ r.out.exc = "IntegrityError")
            /\ UNCHANGED form
            /\ UNCHANGED <<migVars, cal, org>>

NextSession == DeleteTrainingSession

SpecSession == InitSession /\ [][NextSession]_vars

(***************************************************************************)
(* SpecDAO: BaseDAO.safe_execute and the mutations built on it, applied to *)
(* every outcome a query can have                                          *)
(***************************************************************************)
EmptyList == [t |-> "list", v |-> <<>>]

Exceptions ==
    {"DoesNotExist", "IntegrityError", "OperationalError", "DataError", "DatabaseError",
     "PeeweeException", "ValueError", "TypeError"}

QueryOutcomes ==
    {Returned(v) : v \in {None, IntV(0), IntV(1), TeacherModel(1, SeedRow)}}
        \cup {Raised(e) : e \in Exceptions}

InitDAO ==
    /\ form = NoForm
    /\ op \in {[Idle EXCEPT !.name = "pending",
                            !.arg = [q |-> q, default_return |-> dr, reraise_integrity |-> rr]] :
                 q \in QueryOutcomes, dr \in {None, IntV(0), EmptyList, BoolV(FALSE)},
                 rr \in BOOLEAN}
    /\ db = SeedDb
    /\ ret = Returned(None)
    /\ calls = <<>>
    /\ fk = FALSE
    /\ MigIdle

Pending(d) == [out |-> op.arg.q, db |-> d]

SafeExecute ==
    /\ op.name = "pending"
    /\ op' = [op EXCEPT !.name = "safe_execute"]
    /\ ret' = safe_execute(Pending(db), op.arg.default_return, op.arg.reraise_integrity).out
    /\ UNCHANGED <<form, db, calls, fk>>
    /\ UNCHANGED <<migVars, cal, org>>

Create ==
    /\ op.name = "pending"
    /\ op.arg.q.kind = "return" => op.arg.q.value.t = "model"
    /\ op' = [op EXCEPT !.name = "create"]
    /\ ret' = create(Pending(db)).out
    /\ UNCHANGED <<form, db, calls, fk>>
    /\ UNCHANGED <<migVars, cal, org>>

UpdateFields ==
    /\ op.name = "pending"
    /\ op.arg.q.kind = "return" => op.arg.q.value.t = "int"
    /\ op' = [op EXCEPT !.name = "update_fields"]
    /\ ret' = update_fields(Pending(db)).out
    /\ UNCHANGED <<form, db, calls, fk>>
    /\ UNCHANGED <<migVars, cal, org>>

DeleteWhere ==
    /\ op.name = "pending"
    /\ op.arg.q.kind = "return" => op.arg.q.value.t = "int"
    /\ op' = [op EXCEPT !.name = "delete_where"]
    /\ ret' = delete_where(Pending(db)).out
    /\ UNCHANGED <<form, db, calls, fk>>
    /\ UNCHANGED <<migVars, cal, org>>

NextDAO == SafeExecute \/ Create \/ UpdateFields \/ DeleteWhere

SpecDAO == InitDAO /\ [][NextDAO]_vars

(***************************************************************************)
(* SpecMig: migration_manager.run_all_migrations, one statement group per  *)
(* step, every statement able to fail                                      *)
(***************************************************************************)
MIGRATION_ORDER == [m \in Migrations |-> m]

True == Returned(BoolV(TRUE))
False == Returned(BoolV(FALSE))

\* the tables a migration creates: the models list of its run_migration
TablesOf(m) == {<<m, k>> : k \in 1..TablesPerMigration}

\* create_tables(models) that fails on model number failAt (none fails when
\* failAt is past the list): the tables created before the failure
create_tables(t, m, failAt) ==
    [t EXCEPT !.tables = @ \cup {<<m, k>> : k \in 1..(failAt - 1)}]

\* the nested database.atomic(): a savepoint, rolled back when the block raises
savepoint(before, after, raised) == IF raised THEN before ELSE after

\* A run_migration that calls create_tables outside a nested atomic()
run_migration_NoSavepoint(t, m, failAt) ==
    IF failAt = 0
    THEN [success |-> FALSE, tx |-> [t EXCEPT !.aborted = TRUE]]
    ELSE [success |-> failAt > TablesPerMigration, tx |-> create_tables(t, m, failAt)]

\* failAt = 0: one of the two schema statements fails, which aborts the
\* transaction; 1..TablesPerMigration: create_tables fails on that model
run_migration(t, m, failAt) ==
    IF failAt = 0
    THEN [success |-> FALSE, tx |-> [t EXCEPT !.aborted = TRUE]]
    ELSE [success |-> failAt > TablesPerMigration,
          tx |-> savepoint(t, create_tables(t, m, failAt), failAt <= TablesPerMigration)]

_ensure_schema_migrations_table(d, e) ==
    IF e = "ok"
    THEN [result |-> TRUE, dbm |-> [d EXCEPT !.tracking = TRUE]]
    ELSE [result |-> FALSE, dbm |-> d]

\* An _is_migration_applied whose except clause answers True
_is_migration_applied_TrueOnError(d, migration_name, e) ==
    e = "error" \/ (d.tracking /\ migration_name \in d.recorded)

_is_migration_applied(d, migration_name, e) ==
    e = "ok" /\ d.tracking /\ migration_name \in d.recorded

\* the INSERT fails on its own or on the UNIQUE name; a failed statement
\* aborts the transaction
_record_migration(t, tracking, migration_name, e) ==
    IF e = "ok" /\ tracking /\ migration_name \notin t.recorded
    THEN [result |-> TRUE, tx |-> [t EXCEPT !.recorded = @ \cup {migration_name}]]
    ELSE [result |-> FALSE, tx |-> [t EXCEPT !.aborted = TRUE]]

\* leaving the outer database.atomic() normally, a return included: COMMIT,
\* which an aborted transaction turns into a rollback
commit(t, d, e) ==
    IF t.aborted \/ e = "error" THEN d
    ELSE [d EXCEPT !.recorded = @ \cup t.recorded, !.tables = @ \cup t.tables]

InitMig ==
    /\ form = NoForm
    /\ op = Idle
    /\ db = SeedDb
    /\ ret = Returned(None)
    /\ calls = <<>>
    /\ fk = FALSE
    /\ MigIdle

Failed(h, i) == [h EXCEPT !.failed = i]
Attempted(h, i) == [h EXCEPT !.attempted = Append(@, i)]

\* A loop body that goes on to the next migration where the code returns False
Fail_Continue(d, h) ==
    /\ pc' = "check"
    /\ idx' = idx + 1
    /\ ret' = ret
    /\ dbm' = d
    /\ tx' = NoTx
    /\ hist' = h

\* every "return False" of the loop body
Fail(d, h) ==
    /\ pc' = "done"
    /\ idx' = idx
    /\ ret' = False
    /\ dbm' = d
    /\ tx' = NoTx
    /\ hist' = h

Started(close_db, conn) ==
    [hist EXCEPT !.runs = @ + 1, !.attempted = <<>>, !.ensured = FALSE, !.failed = 0,
                 !.startAll = (Migrations \subseteq dbm.recorded), !.before = dbm,
                 !.close_db = close_db, !.open = (conn = "ok")]

\* lines 116-144: no connection (conn = "none"), or connect() raises
Start ==
    /\ pc \in {"idle", "done"}
    /\ hist.runs < MaxRuns
    /\ \E close_db \in BOOLEAN, conn \in {"ok", "none", "error"} :
          /\ pc' = IF conn = "ok" THEN "ensure" ELSE "done"
          /\ ret' = IF conn = "ok" THEN Returned(None) ELSE False
          /\ hist' = Started(close_db, conn)
    /\ idx' = 1
    /\ UNCHANGED <<dbm, tx>>
    /\ UNCHANGED <<svcVars, procs, cal, org>>

\* lines 147-153
Ensure ==
    /\ pc = "ensure"
    /\ \E e \in DbOutcomes :
          \E r \in {_ensure_schema_migrations_table(dbm, e)} :
              /\ pc' = IF r.result THEN "check" ELSE "done"
              /\ ret' = IF r.result THEN ret ELSE False
              /\ dbm' = r.dbm
              /\ hist' = [hist EXCEPT !.ensured = r.result, !.before = r.dbm,
                                       !.open = r.result]
    /\ UNCHANGED <<idx, tx>>
    /\ UNCHANGED <<svcVars, procs, cal, org>>

\* lines 155-162: the head of the loop body
Check ==
    /\ pc = "check"
    /\ idx <= NumMigrations
    /\ \E e \in DbOutcomes :
          IF _is_migration_applied(dbm, MIGRATION_ORDER[idx], e)
          THEN /\ idx' = idx + 1
               /\ pc' = "check"
          ELSE /\ idx' = idx
               /\ pc' = "begin"
    /\ hist' = [hist EXCEPT !.before = dbm]
    /\ UNCHANGED <<ret, dbm, tx>>
    /\ UNCHANGED <<svcVars, procs, cal, org>>

\* lines 164-167: BEGIN and SET LOCAL search_path
Begin ==
    /\ pc = "begin"
    /\ \E e \in DbOutcomes :
          IF e = "ok"
          THEN /\ pc' = "run"
               /\ tx' = [recorded |-> dbm.recorded, tables |-> dbm.tables, aborted |-> FALSE]
               /\ UNCHANGED <<idx, ret, dbm, hist>>
          ELSE Fail(dbm, Failed(hist, idx))
    /\ UNCHANGED <<svcVars, procs, cal, org>>

\* lines 169-173
Run ==
    /\ pc = "run"
    /\ \E failAt \in 0..(TablesPerMigration + 1), e \in DbOutcomes :
          \E r \in {run_migration(tx, MIGRATION_ORDER[idx], failAt)} :
              IF r.success
              THEN /\ pc' = "record"
                   /\ tx' = r.tx
                   /\ hist' = Attempted(hist, idx)
                   /\ UNCHANGED <<idx, ret, dbm>>
              ELSE Fail(commit(r.tx, dbm, e), Failed(Attempted(hist, idx), idx))
    /\ UNCHANGED <<svcVars, procs, cal, org>>

\* lines 175-178
Record ==
    /\ pc = "record"
    /\ \E e \in DbOutcomes, e2 \in DbOutcomes :
          \E r \in {_record_migration(tx, dbm.tracking, MIGRATION_ORDER[idx], e)} :
              IF r.result
              THEN /\ pc' = "commit"
                   /\ tx' = r.tx
                   /\ UNCHANGED <<idx, ret, dbm, hist>>
              ELSE Fail(commit(r.tx, dbm, e2), Failed(hist, idx))
    /\ UNCHANGED <<svcVars, procs, cal, org>>

\* lines 178-186: the end of the with block and of the loop body
Commit ==
    /\ pc = "commit"
    /\ \E e \in DbOutcomes :
          IF e = "ok"
          THEN /\ pc' = "check"
               /\ idx' = idx + 1
               /\ dbm' = commit(tx, dbm, e)
               /\ tx' = NoTx
               /\ hist' = [hist EXCEPT !.applied[idx] = @ + 1]
               /\ ret' = ret
          ELSE Fail(dbm, Failed(hist, idx))
    /\ UNCHANGED <<svcVars, procs, cal, org>>

\* lines 188-200
Finish ==
    /\ pc = "check"
    /\ idx > NumMigrations
    /\ pc' = "done"
    /\ ret' = True
    /\ hist' = [hist EXCEPT !.open = ~hist.close_db]
    /\ UNCHANGED <<idx, dbm, tx>>
    /\ UNCHANGED <<svcVars, procs, cal, org>>

NextMig == Start \/ Ensure \/ Check \/ Begin \/ Run \/ Record \/ Commit \/ Finish

SpecMig == InitMig /\ [][NextMig]_vars

(***************************************************************************)
(* SpecConc: two processes in run_all_migrations on the same database,     *)
(* their statements interleaved                                            *)
(***************************************************************************)
\* READ COMMITTED: a statement sees what is committed and what its own
\* transaction did
View(t, d) ==
    [recorded |-> t.recorded \cup d.recorded, tables |-> t.tables \cup d.tables,
     aborted |-> t.aborted]

\* what the open transactions of the other processes hold uncommitted; a
\* statement that touches it waits for that transaction to end
PendingNames(p) == UNION {procs[q].tx.recorded \ dbm.recorded : q \in Procs \ {p}}
PendingTables(p) == UNION {procs[q].tx.tables \ dbm.tables : q \in Procs \ {p}}

InitConc ==
    /\ form = NoForm
    /\ op = Idle
    /\ db = SeedDb
    /\ ret = Returned(None)
    /\ calls = <<>>
    /\ fk = FALSE
    /\ MigIdle

ProcStep(p, new, d) ==
    /\ procs' = [procs EXCEPT ![p] = new]
    /\ dbm' = d
    /\ UNCHANGED <<pc, idx, tx, hist, ret>>
    /\ UNCHANGED <<svcVars, cal, org>>

ProcFail(s, fault) ==
    [s EXCEPT !.pc = "done", !.ret = False, !.tx = NoTx, !.fault = @ \/ fault]

ProcStart(p) ==
    /\ procs[p].pc = "idle"
    /\ \E conn \in {"ok", "none", "error"} :
          ProcStep(p, IF conn = "ok" THEN [procs[p] EXCEPT !.pc = "ensure"]
                  ELSE ProcFail(procs[p], TRUE), dbm)

ProcEnsure(p) ==
    /\ procs[p].pc = "ensure"
    /\ \E e \in DbOutcomes :
          \E r \in {_ensure_schema_migrations_table(dbm, e)} :
              ProcStep(p, IF r.result THEN [procs[p] EXCEPT !.pc = "check"]
                      ELSE ProcFail(procs[p], TRUE), r.dbm)

ProcCheck(p) ==
    /\ procs[p].pc = "check"
    /\ procs[p].idx <= NumMigrations
    /\ \E e \in DbOutcomes :
          ProcStep(p, IF _is_migration_applied(dbm, MIGRATION_ORDER[procs[p].idx], e)
                  THEN [procs[p] EXCEPT !.idx = @ + 1]
                  ELSE [procs[p] EXCEPT !.pc = "begin", !.fault = @ \/ (e = "error")],
               dbm)

ProcBegin(p) ==
    /\ procs[p].pc = "begin"
    /\ \E e \in DbOutcomes :
          ProcStep(p, IF e = "ok" THEN [procs[p] EXCEPT !.pc = "run", !.tx = NoTx]
                  ELSE ProcFail(procs[p], TRUE), dbm)

ProcRun(p) ==
    /\ procs[p].pc = "run"
    /\ TablesOf(MIGRATION_ORDER[procs[p].idx]) \cap PendingTables(p) = {}
    /\ \E failAt \in 0..(TablesPerMigration + 1), e \in DbOutcomes :
          \E r \in {run_migration(View(procs[p].tx, dbm), MIGRATION_ORDER[procs[p].idx], failAt)} :
              IF r.success
              THEN ProcStep(p, [procs[p] EXCEPT !.pc = "record", !.tx = r.tx], dbm)
              ELSE ProcStep(p, ProcFail(procs[p], TRUE), commit(r.tx, dbm, e))

ProcRecord(p) ==
    /\ procs[p].pc = "record"
    /\ MIGRATION_ORDER[procs[p].idx] \notin PendingNames(p)
    /\ \E e \in DbOutcomes, e2 \in DbOutcomes :
          \E r \in {_record_migration(View(procs[p].tx, dbm), dbm.tracking,
                                      MIGRATION_ORDER[procs[p].idx], e)} :
              IF r.result
              THEN ProcStep(p, [procs[p] EXCEPT !.pc = "commit", !.tx = r.tx], dbm)
              ELSE ProcStep(p, ProcFail(procs[p], e = "error"), commit(r.tx, dbm, e2))

ProcCommit(p) ==
    /\ procs[p].pc = "commit"
    /\ \E e \in DbOutcomes :
          IF e = "ok"
          THEN ProcStep(p, [procs[p] EXCEPT !.pc = "check", !.idx = @ + 1, !.tx = NoTx,
                                        !.inserted = @ \cup (procs[p].tx.recorded \ dbm.recorded)],
                    commit(procs[p].tx, dbm, e))
          ELSE ProcStep(p, ProcFail(procs[p], TRUE), dbm)

ProcFinish(p) ==
    /\ procs[p].pc = "check"
    /\ procs[p].idx > NumMigrations
    /\ ProcStep(p, [procs[p] EXCEPT !.pc = "done", !.ret = True], dbm)

NextConc ==
    \E p \in Procs :
        \/ ProcStart(p)
        \/ ProcEnsure(p)
        \/ ProcCheck(p)
        \/ ProcBegin(p)
        \/ ProcRun(p)
        \/ ProcRecord(p)
        \/ ProcCommit(p)
        \/ ProcFinish(p)

SpecConc == InitConc /\ [][NextConc]_vars

(***************************************************************************)
(* SpecCal: MonthCalendar, its grid of controls and its navigation         *)
(***************************************************************************)
\* Dates are day numbers counted from 2025-12-01 (a Monday), the first month
\* the model displays; months are (year, month) pairs as in current_date.
FirstMonth == <<2025, 12>>

IsLeap(y) == (y % 4 = 0 /\ y % 100 # 0) \/ y % 400 = 0

DaysInMonth(y, m) ==
    IF m = 2 THEN (IF IsLeap(y) THEN 29 ELSE 28)
    ELSE IF m \in {4, 6, 9, 11} THEN 30 ELSE 31

MonthIndex(y, m) == (y - FirstMonth[1]) * 12 + (m - FirstMonth[2])
YearOf(k) == FirstMonth[1] + ((FirstMonth[2] - 1 + k) \div 12)
MonthOf(k) == ((FirstMonth[2] - 1 + k) % 12) + 1

\* day number of the first day of the month with index k
RECURSIVE FirstDay(_)
FirstDay(k) ==
    IF k = 0 THEN 0
    ELSE IF k > 0 THEN FirstDay(k - 1) + DaysInMonth(YearOf(k - 1), MonthOf(k - 1))
    ELSE FirstDay(k + 1) - DaysInMonth(YearOf(k), MonthOf(k))

\* date.weekday(): Monday is 0
weekday(date) == date % 7

\* list(calendar.Calendar(6).itermonthdates(year, month))
itermonthdates(year, month) ==
    LET firstweekday == 6
        day1 == FirstDay(MonthIndex(year, month))
        ndays == DaysInMonth(year, month)
        days_before == (weekday(day1) - firstweekday) % 7
        days_after == (firstweekday - weekday(day1) - ndays) % 7
    IN  [i \in 1..(days_before + ndays + days_after) |-> day1 - days_before + i - 1]

\* a control on the container: what it is, the name it was added under, and
\* the grid build that made it
Control(kind, name, build) == [kind |-> kind, name |-> name, build |-> build]

\* self.calendar_data.get(date_str, [])
items_for(calendar_data, date) ==
    IF date \in DOMAIN calendar_data THEN calendar_data[date] ELSE <<>>

\* _create_single_item_button: title = item.get('title', 'Untitled') and
\* len(title); a TypeError is caught and no button is added
ButtonMade(item) ==
    IF "title" \in DOMAIN item THEN item.title # None ELSE TRUE

Headers(build) == {Control("header", i, build) : i \in 0..6}

Cells(month_days) ==
    {<<week_num, day_num>> \in (0..5) \X (0..6) : week_num * 7 + day_num < Len(month_days)}

DayLabels(month_days, build) ==
    {Control("label", month_days[c[1] * 7 + c[2] + 1], build) : c \in Cells(month_days)}

ItemButtons(month_days, calendar_data, build) ==
    {Control("button", <<month_days[c[1] * 7 + c[2] + 1], r>>, build) :
        <<c, r>> \in {<<c, r>> \in Cells(month_days) \X (0..(MaxItems - 1)) :
            /\ r < Len(items_for(calendar_data, month_days[c[1] * 7 + c[2] + 1]))
            /\ ButtonMade(items_for(calendar_data, month_days[c[1] * 7 + c[2] + 1])[r + 1])}}

\* _create_calendar_grid: dispose what the dictionaries hold, then build the
\* headers, the day labels and the item buttons of current_date's month
Rebuilt(c, headers, labels, buttons) ==
    [c EXCEPT
        !.builds = c.builds + 1,
        !.day_headers = headers,
        !.day_labels = labels,
        !.calendar_buttons = buttons,
        !.live = (c.live \ (c.day_headers \cup c.day_labels \cup c.calendar_buttons))
                    \cup headers \cup labels \cup buttons]

_create_calendar_grid(c, month_days) ==
    Rebuilt(c, Headers(c.builds + 1), DayLabels(month_days, c.builds + 1),
            ItemButtons(month_days, c.calendar_data, c.builds + 1))

\* load_calendar_data: the callback's answer, {} when there is no callback or
\* when it raises
load_calendar_data(c, answer) ==
    [c EXCEPT !.calendar_data = IF answer.kind = "return" THEN answer.value
                                ELSE [d \in {} |-> <<>>]]

reload_data(c, answer) ==
    _create_calendar_grid(load_calendar_data(c, answer),
                          itermonthdates(c.current_date[1], c.current_date[2]))

\* MonthCalendar.__init__
MonthCalendar(start_date, answer) ==
    reload_data([current_date |-> start_date, calendar_data |-> [d \in {} |-> <<>>],
                 day_headers |-> {}, day_labels |-> {}, calendar_buttons |-> {},
                 live |-> {}, builds |-> 0], answer)

prev_month(d) ==
    IF d[2] = 1 THEN <<d[1] - 1, 12, 1>> ELSE <<d[1], d[2] - 1, 1>>

next_month(d) ==
    IF d[2] = 12 THEN <<d[1] + 1, 1, 1>> ELSE <<d[1], d[2] + 1, 1>>

\* the items a callback can hand over
Items ==
    {[id |-> 1, title |-> StrV(<<"T">>)], [id |-> 2, title |-> None], [id |-> 3]}

ItemLists == UNION {[1..n -> Items] : n \in 0..MaxItems}

\* what get_items_callback answers for a month: items on its first day, on the
\* last day of its grid and on a day outside the grid; or an exception
AnswersAt(first, last, outside) ==
    {Raised("Exception")} \cup
    {Returned((first :> l1) @@ (last :> l2) @@ (outside :> l2)) :
        l1 \in ItemLists, l2 \in {<<>>, <<[id |-> 1, title |-> StrV(<<"T">>)]>>}}

Answers(year, month) ==
    AnswersAt(FirstDay(MonthIndex(year, month)),
              itermonthdates(year, month)[Len(itermonthdates(year, month))],
              FirstDay(MonthIndex(year, month)) + 50)

Displayed == {<<YearOf(k), MonthOf(k)>> : k \in 0..(MonthSpan - 1)}

InitCal ==
    /\ form = NoForm
    /\ op = [Idle EXCEPT !.name = "MonthCalendar"]
    /\ db = SeedDb
    /\ ret = Returned(None)
    /\ calls = <<>>
    /\ fk = FALSE
    /\ procs = [p \in Procs |-> NoProc]
    /\ pc = "idle"
    /\ idx = 1
    /\ dbm = FreshSchema
    /\ tx = NoTx
    /\ hist = NoHist
    /\ org = NoAccounting
    /\ \E ym \in Displayed, day \in {1, 15} :
          \E answer \in Answers(ym[1], ym[2]) :
              cal = MonthCalendar(<<ym[1], ym[2], day>>, answer)

Navigate(name, date) ==
    /\ cal.builds < MaxBuilds
    /\ <<date[1], date[2]>> \in Displayed
    /\ \E answer \in Answers(date[1], date[2]) :
          cal' = reload_data([cal EXCEPT !.current_date = date], answer)
    /\ op' = [Idle EXCEPT !.name = name]
    /\ UNCHANGED <<form, db, ret, calls, fk>>
    /\ UNCHANGED <<migVars, org>>

navigate_prev == Navigate("navigate_prev", prev_month(cal.current_date))

navigate_next == Navigate("navigate_next", next_month(cal.current_date))

\* datetime.now().replace(day=1): any month the model displays
navigate_to_today ==
    \E ym \in Displayed : Navigate("navigate_to_today", <<ym[1], ym[2], 1>>)

ReloadData == Navigate("reload_data", cal.current_date)

\* resize: the grid is rebuilt from the calendar_data already loaded
Resize ==
    /\ cal.builds < MaxBuilds
    /\ cal' = _create_calendar_grid(cal, itermonthdates(cal.current_date[1], cal.current_date[2]))
    /\ op' = [Idle EXCEPT !.name = "resize"]
    /\ UNCHANGED <<form, db, ret, calls, fk>>
    /\ UNCHANGED <<migVars, org>>

NextCal == navigate_prev \/ navigate_next \/ navigate_to_today \/ ReloadData \/ Resize

SpecCal == InitCal /\ [][NextCal]_vars

(***************************************************************************)
(* SpecCust: CustomerDAO, a BaseDAO over the accounting model Org          *)
(***************************************************************************)
OrgIds == 1..MaxOrgs

\* a row of public.org: the columns the CustomerDAO queries look at
OrgRow(id, disc, active) == [org_id |-> id, orgdiscriminator |-> disc, active |-> active]

OrgTables ==
    {t \in SUBSET {OrgRow(id, disc, a) : id \in OrgIds, disc \in {"CUST", "VEND"}, a \in BOOLEAN} :
        \A r1, r2 \in t : r1.org_id = r2.org_id => r1 = r2}

\* CustomerDAO._to_dict
_to_dict(r) == [t |-> "dict", org_id |-> r.org_id, active |-> r.active]

\* search_customers with the default term: the customers, active ones only
\* unless include_inactive; run by execute_query, which lets errors through
search_customers(rows, include_inactive, e) ==
    IF e = "error" THEN [out |-> Raised("OperationalError"), db |-> rows]
    ELSE [out |-> Returned([t |-> "list",
                            v |-> {r.org_id : r \in {r \in rows : /\ r.orgdiscriminator = "CUST"
                                                                  /\ (include_inactive \/ r.active)}}]),
          db |-> rows]

\* Org.get((Org.org_id == org_id) & (Org.orgdiscriminator == 'CUST'))
OrgGetQ(rows, org_id, e) ==
    IF e = "error" THEN [out |-> Raised("OperationalError"), db |-> rows]
    ELSE IF \E r \in rows : r.org_id = org_id /\ r.orgdiscriminator = "CUST"
         THEN [out |-> Returned(_to_dict(CHOOSE r \in rows :
                                   r.org_id = org_id /\ r.orgdiscriminator = "CUST")),
               db |-> rows]
         ELSE [out |-> Raised("DoesNotExist"), db |-> rows]

\* CustomerDAO.get_by_id
CustomerDAO_get_by_id(rows, org_id, e) == safe_execute(OrgGetQ(rows, org_id, e), None, TRUE)

\* CustomerDAO.get_active_count
get_active_count(rows, e) ==
    safe_execute(IF e = "error" THEN [out |-> Raised("OperationalError"), db |-> rows]
                 ELSE [out |-> Returned(IntV(Cardinality({r \in rows :
                                    r.orgdiscriminator = "CUST" /\ r.active}))),
                       db |-> rows],
                 IntV(0), TRUE)

\* Org.create(**data): org_id is a BigAutoField, the next number of its sequence
OrgCreateQ(rows, seq, disc, active, e) ==
    IF e = "error" THEN [out |-> Raised("OperationalError"), db |-> rows]
    ELSE [out |-> Returned([t |-> "model", org_id |-> seq]),
          db |-> rows \cup {OrgRow(seq, disc, active)}]

\* Org.update(active=...).where(Org.org_id == org_id).execute()
OrgUpdateQ(rows, org_id, active, e) ==
    IF e = "error" THEN [out |-> Raised("OperationalError"), db |-> rows]
    ELSE [out |-> Returned(IntV(Cardinality({r \in rows : r.org_id = org_id}))),
          db |-> {IF r.org_id = org_id THEN [r EXCEPT !.active = active] ELSE r : r \in rows}]

\* Org.delete().where(Org.org_id == org_id).execute()
OrgDeleteQ(rows, org_id, e) ==
    IF e = "error" THEN [out |-> Raised("OperationalError"), db |-> rows]
    ELSE [out |-> Returned(IntV(Cardinality({r \in rows : r.org_id = org_id}))),
          db |-> {r \in rows : r.org_id # org_id}]

\* DAOFactory.customer(): CustomerDAO(logger) over whatever the org table holds
InitCust ==
    /\ form = NoForm
    /\ op = [Idle EXCEPT !.name = "customer"]
    /\ db = SeedDb
    /\ ret = Returned(None)
    /\ calls = <<>>
    /\ fk = FALSE
    /\ cal = NoCalendar
    /\ procs = [p \in Procs |-> NoProc]
    /\ pc = "idle"
    /\ idx = 1
    /\ dbm = FreshSchema
    /\ tx = NoTx
    /\ hist = NoHist
    /\ \E t \in OrgTables : org = [rows |-> t, before |-> t]

\* one call on the CustomerDAO: what it returns and what it leaves in the table
CustCall(name, r) ==
    /\ op' = [Idle EXCEPT !.name = name]
    /\ ret' = r.out
    /\ org' = [org EXCEPT !.rows = r.db]
    /\ UNCHANGED <<form, db, calls, fk, cal>>
    /\ UNCHANGED migVars

SearchCustomers ==
    \E include_inactive \in BOOLEAN, e \in DbOutcomes :
        CustCall("search_customers", search_customers(org.rows, include_inactive, e))

CustGetById ==
    \E id \in OrgIds, e \in DbOutcomes :
        CustCall("get_by_id", CustomerDAO_get_by_id(org.rows, id, e))

GetActiveCount ==
    \E e \in DbOutcomes : CustCall("get_active_count", get_active_count(org.rows, e))

\* the BaseDAO methods CustomerDAO inherits
CustCreate ==
    /\ \A r \in org.rows : r.org_id <= MaxOrgs
    /\ \E disc \in {"CUST", "VEND"}, active \in BOOLEAN, e \in DbOutcomes :
          CustCall("create", create(OrgCreateQ(org.rows, MaxOrgs + 1, disc, active, e)))

CustUpdateFields ==
    \E id \in OrgIds, active \in BOOLEAN, e \in DbOutcomes :
        CustCall("update_fields", update_fields(OrgUpdateQ(org.rows, id, active, e)))

CustDeleteWhere ==
    \E id \in OrgIds, e \in DbOutcomes :
        CustCall("delete_where", delete_where(OrgDeleteQ(org.rows, id, e)))

NextCust ==
    \/ SearchCustomers \/ CustGetById \/ GetActiveCount
    \/ CustCreate \/ CustUpdateFields \/ CustDeleteWhere

SpecCust == InitCust /\ [][NextCust]_vars

(***************************************************************************)
(* Claims about BaseForm (SpecForm)                                        *)
(***************************************************************************)
\* The primary-key value as BaseForm reads it: the instance's attribute when
\* the instance has it, otherwise data[pk_field]
PkSource ==
    IF form.instance # None /\ Meta_pk_field \in DOMAIN form.instance.attrs
    THEN form.instance.attrs[Meta_pk_field]
    ELSE IF Meta_pk_field \in DOMAIN form.data THEN form.data[Meta_pk_field] ELSE None

SavedWithoutErrors == op.name = "save" /\ Len(form._errors) = 0

\* C1: save() on a form with no recorded errors invokes exactly one
\* DAO method with cleaned_data as kwargs: update_fn when the primary-key value
\* is present (not None), create_fn when it is absent.
C1_DispatchByPresence ==
    SavedWithoutErrors =>
        /\ Len(calls) = 1
        /\ calls[1].kwargs = form.cleaned_data
        /\ calls[1].method = IF PkSource # None THEN Meta_update_fn ELSE Meta_create_fn

NotBound ==
    <<[field |-> "__all__", message |-> "Form is not bound (no data/instance)."]>>

\* C7: is_valid() returns True exactly when no error is recorded afterwards; on
\* an unbound form it returns False with the single '__all__' error and does
\* not run clean(), on a bound form it runs clean(); and a call on a form that
\* was validated before leaves the error list and cleaned_data as they were
\* and returns the same result.
C7_IsValidRepeatable ==
    [][ op'.name = "is_valid" =>
          /\ ret' = Returned(BoolV(Len(form'._errors) = 0))
          /\ ~form._is_bound =>
                (ret'.value.v = FALSE /\ form'._errors = NotBound /\ ~op'.cleanRan)
          /\ form._is_bound => op'.cleanRan
          /\ op.validRuns > 0 =>
                /\ form'._errors = form._errors
                /\ form'.cleaned_data = form.cleaned_data
                /\ ret'.value.v = (Len(form._errors) = 0) ]_vars

\* C7 witness: is_valid() has run at least twice on a form with several errors
C7_Witness ==
    op.name = "is_valid" /\ op.validRuns = 2 /\ Len(form._errors) > 1

(***************************************************************************)
(* Claims about the services (SpecTeacher, SpecSession)                    *)
(***************************************************************************)
IsErrorEntry(e) == DOMAIN e = {"field", "message"}

\* C2: save_teacher always returns a dict of one of two shapes,
\* {ok: False, errors: [...]} with a non-empty list of {field, message} entries
\* or {ok: True, result: ...}; and when ok is False no DAO method was invoked
\* and the stored rows are unchanged.
C2_UniformContract ==
    op.name = "save_teacher" =>
        /\ ret.kind = "return"
        /\ \/ /\ DOMAIN ret.value = {"ok", "errors"}
              /\ ret.value.ok = FALSE
              /\ Len(ret.value.errors) > 0
              /\ \A i \in 1..Len(ret.value.errors) : IsErrorEntry(ret.value.errors[i])
              /\ calls = <<>>
              /\ ~op.changed
           \/ /\ DOMAIN ret.value = {"ok", "result"}
              /\ ret.value.ok = TRUE

\* C3: whenever save_teacher returns ok True, result is the (non-None) Teacher
\* instance of a row that now exists in the table with the cleaned values.
C3_OkMeansStored ==
    (op.name = "save_teacher" /\ ret.kind = "return" /\ ret.value.ok) =>
        LET m == ret.value.result
            kw == calls[1].kwargs
        IN  /\ m # None
            /\ m.teacher_id \in TeacherIds
            /\ db.teacher[m.teacher_id] # NoRow
            /\ \A k \in NameFields :
                  /\ db.teacher[m.teacher_id][k] = m[k]
                  /\ k \in DOMAIN kw => m[k] = kw[k]

\* C6: delete_training_session deletes the session's attendees before the
\* session, so the session delete never violates the attendee foreign key, and
\* after ok True neither the session row nor an attendee row of it remains.
C6_AttendeesFirst ==
    op.name = "delete_training_session" =>
        /\ ~fk
        /\ (ret.kind = "return" /\ ret.value.ok) =>
              /\ op.arg.v \in SessionIds /\ db.session[op.arg.v] = NoRow
              /\ \A a \in AttendeeIds :
                    db.attendee[a] = NoRow \/ db.attendee[a].session # op.arg.v

(***************************************************************************)
(* Claims about BaseDAO (SpecDAO)                                          *)
(***************************************************************************)
\* C4: safe_execute returns the operation's result when it succeeds, returns
\* default_return when it raises DoesNotExist or any exception other than
\* IntegrityError, and on IntegrityError re-raises when reraise_integrity is
\* True and returns default_return when it is False.
C4_SafeExecute ==
    op.name = "safe_execute" =>
        /\ op.arg.q.kind = "return" => ret = op.arg.q
        /\ (op.arg.q.kind = "raise" /\ op.arg.q.exc # "IntegrityError") =>
              ret = Returned(op.arg.default_return)
        /\ (op.arg.q.kind = "raise" /\ op.arg.q.exc = "IntegrityError") =>
              ret = IF op.arg.reraise_integrity THEN Raised("IntegrityError")
                    ELSE Returned(op.arg.default_return)

\* C5: create, update_fields and delete_where report every database error
\* through their return value (None, 0 and 0) and never raise.
C5_MutationsNeverRaise ==
    /\ op.name \in {"create", "update_fields", "delete_where"} => ret.kind = "return"
    /\ (op.name = "create" /\ op.arg.q.kind = "raise") => ret = Returned(None)
    /\ (op.name \in {"update_fields", "delete_where"} /\ op.arg.q.kind = "raise") =>
          ret = Returned(IntV(0))

\* C4 witness: an IntegrityError re-raised, the caller having asked for it
C4_Witness ==
    /\ op.name = "safe_execute"
    /\ op.arg.q = Raised("IntegrityError")
    /\ op.arg.reraise_integrity
    /\ ret = Raised("IntegrityError")

(***************************************************************************)
(* Claims about the migration manager (SpecMig)                            *)
(***************************************************************************)
HasReturned == pc \in {"idle", "done"}
Attempting == pc \in {"begin", "run", "record", "commit"}
Complete(m) == TablesOf(m) \subseteq dbm.tables
Untouched(m) == TablesOf(m) \cap dbm.tables = {}

\* C8: each migration is applied at most once; a call made after every
\* migration is recorded runs none of them and returns True (stated for the
\* calls that got their connection and their tracking table).
C8_AtMostOnce ==
    /\ \A m \in Migrations : hist.applied[m] <= 1
    /\ (hist.startAll /\ hist.ensured) =>
          /\ ~Attempting
          /\ pc = "done" => ret = True

\* C9: whenever run_all_migrations has returned, a migration's tables are
\* committed iff its tracking record is committed, and a migration that failed
\* left nothing committed.
C9_AtomicWithRecord ==
    HasReturned =>
        /\ \A m \in Migrations :
              IF m \in dbm.recorded THEN Complete(m) ELSE Untouched(m)
        /\ hist.failed # 0 =>
              /\ dbm.recorded = hist.before.recorded
              /\ dbm.tables = hist.before.tables

\* C9 witness: the second migration ran and failed after the first was
\* committed, and the run is over
C9_Witness ==
    /\ pc = "done"
    /\ hist.failed = 2
    /\ hist.attempted = <<1, 2>>
    /\ 1 \in dbm.recorded
    /\ Untouched(2)

\* C10: a migration is attempted only when every earlier one in
\* MIGRATION_ORDER is recorded, and none is attempted after a failed one in
\* the same run.
C10_InOrder ==
    Attempting =>
        /\ hist.failed = 0
        /\ \A j \in 1..(idx - 1) : MIGRATION_ORDER[j] \in dbm.recorded

\* C10 witness: the second migration under way in a call that applied the first
C10_Witness ==
    /\ pc = "record"
    /\ idx = 2
    /\ hist.attempted = <<1, 2>>

AllRecorded == \A m \in Migrations : MIGRATION_ORDER[m] \in dbm.recorded

\* C11 (as claimed): run_all_migrations never raises, and it returns True
\* exactly when, on return, every migration of MIGRATION_ORDER is recorded.
C11_TrueIffAllRecorded ==
    pc = "done" =>
        /\ ret \in {True, False}
        /\ (ret = True) <=> AllRecorded

\* C11 (amended): run_all_migrations never raises; it returns True only when,
\* on return, every migration of MIGRATION_ORDER is recorded, and it returns
\* False whenever it got no connection or no tracking table or a migration
\* failed.
C11_TrueOnlyIfAllRecorded ==
    pc = "done" =>
        /\ ret \in {True, False}
        /\ ret = True => (AllRecorded /\ hist.ensured /\ hist.failed = 0)

\* C11 witness: a call that applied migrations and returned True
C11_Witness ==
    /\ pc = "done"
    /\ ret = True
    /\ Len(hist.attempted) > 0
    /\ AllRecorded

(***************************************************************************)
(* Claims about concurrent migration runs (SpecConc)                       *)
(***************************************************************************)
BothReturned == \A p \in Procs : procs[p].pc = "done"
NoFault == \A p \in Procs : ~procs[p].fault

\* C12: when two processes run run_all_migrations at the same time and no
\* statement fails on its own, both runs return True and schema_migrations
\* ends with exactly one row per migration name.
C12_BothSucceed ==
    (BothReturned /\ NoFault) =>
        /\ \A p \in Procs : procs[p].ret = True
        /\ \A m \in Migrations :
              Cardinality({p \in Procs : MIGRATION_ORDER[m] \in procs[p].inserted}) = 1

(***************************************************************************)
(* Claims about MonthCalendar (SpecCal)                                    *)
(***************************************************************************)
\* the Sunday-first grid of a month: the days of every Sunday-to-Saturday
\* week that holds a day of the month
SundayOf(date) == date - ((weekday(date) + 1) % 7)

MonthGrid(year, month) ==
    LET first == FirstDay(MonthIndex(year, month))
        last == first + DaysInMonth(year, month) - 1
    IN  {date \in (first - 6)..(last + 6) :
            SundayOf(date) <= last /\ SundayOf(date) + 6 >= first}

Live(kind) == {c \in cal.live : c.kind = kind}

\* C13: after construction and after every navigate_prev, navigate_next,
\* navigate_to_today, reload_data and resize, the live day labels are exactly
\* one per date of the Sunday-first grid of current_date's month, the live item
\* buttons are exactly one per item calendar_data holds for those dates, and no
\* control of an earlier grid remains.
C13_WidgetsMatchRange ==
    /\ \A c \in cal.live : c.build = cal.builds
    /\ {c.name : c \in Live("label")} = MonthGrid(cal.current_date[1], cal.current_date[2])
    /\ Cardinality(Live("label")) = Cardinality(MonthGrid(cal.current_date[1], cal.current_date[2]))
    /\ {c.name : c \in Live("button")} =
          {<<date, r>> \in MonthGrid(cal.current_date[1], cal.current_date[2]) \X (0..(MaxItems - 1)) :
              r < Len(items_for(cal.calendar_data, date))}

(***************************************************************************)
(* Claims about CustomerDAO (SpecCust)                                     *)
(***************************************************************************)
\* C14: CustomerDAO is read-only: after any sequence of calls on a CustomerDAO
\* the accounting tables hold exactly the rows they held before.
C14_ReadOnly == org.rows = org.before

(***************************************************************************)
(* Claims about what TeacherForm hands to TeacherDAO (SpecForm)            *)
(***************************************************************************)
SavedAfterValid == op.name = "save" /\ op.validRuns > 0 /\ Len(form._errors) = 0

\* the keyword arguments a TeacherDAO method accepts
Accepts(method, kw) ==
    IF method = Meta_create_fn THEN Binds(kw, NameFields, {})
    ELSE Binds(kw, {"teacher_id"}, NameFields)

\* C15: when is_valid() returned True, save() calls the selected TeacherDAO
\* method with exactly the keyword arguments it accepts (create: first_name,
\* last_name, email; update: teacher_id plus any of those), whatever teacher_id
\* the input holds and for partial forms too, so save() never fails on an
\* argument mismatch.
C15_DaoReadyRecord ==
    SavedAfterValid =>
        /\ Len(calls) = 1
        /\ Accepts(calls[1].method, calls[1].kwargs)
        /\ ret # Raised("TypeError")

(***************************************************************************)
(* Claims about the two deletes of delete_training_session (SpecSession)   *)
(***************************************************************************)
\* C16: delete_training_session is all-or-nothing: whenever it does not delete
\* the TrainingSession row (it returns ok False or raises), the SessionAttendee
\* rows of that session are the same as before the call.
C16_AllOrNothing ==
    [][ (op'.name = "delete_training_session" /\ ~(ret'.kind = "return" /\ ret'.value.ok)) =>
            \A a \in AttendeeIds :
                (db.attendee[a] # NoRow /\ db.attendee[a].session = op'.arg.v) =>
                    db'.attendee[a] = db.attendee[a] ]_vars

====
